---- MODULE Spec2Model ----
(***************************************************************************)
(* A model of the SDAM Topology of mongodb-core (lib/sdam/topology.js):    *)
(* the constructor, connect, close, selectServer and serverUpdateHandler,  *)
(* with the helpers selectServers, randomSelection, connectServers,        *)
(* updateServers, topologyTypeFromSeedlist and calculateDurationInMs.      *)
(*                                                                         *)
(* TopologyDescription, ServerDescription and Server are required by       *)
(* topology.js but their files are not part of the sources at hand; they   *)
(* are modelled from the written specification (sections 3, 4.1, 4.4).     *)
(***************************************************************************)
EXTENDS Integers, Sequences, FiniteSets, TLC

(***************************************************************************)
(* Bounds of the model.                                                    *)
(***************************************************************************)
\* the clock reads TickMs milliseconds when the topology is constructed and
\* advances in steps of TickMs milliseconds, at most MaxTicks times
MaxTicks == 1
TickMs == 500
\* connect() is called at most MaxConnects times
MaxConnects == 1
\* the number of connect() calls of a caller that connects again
MaxReconnects == 2

(***************************************************************************)
(* Values of the program.                                                  *)
(***************************************************************************)
\* a seed without a port: `seed.port ?` is false for it
NoPort == 0
DefaultPort == 27017
\* JavaScript's undefined / null where a string or an object is expected
Undefined == "undefined"
NoAddress == <<Undefined, NoPort>>

\* TOPOLOGY_DEFAULTS
localThresholdMS == 15
serverSelectionTimeoutMS == 10000
heartbeatFrequencyMS == 30000

\* the seedlists a topology is constructed from
SeedLists ==
  { <<>>,
    << [host |-> "a", port |-> NoPort] >>,
    << [host |-> "a", port |-> NoPort], [host |-> "b", port |-> DefaultPort] >> }

\* options.replicaset
ReplicaSetOptions == {Undefined, "rs0"}

Addresses == { <<"a", DefaultPort>>, <<"b", DefaultPort>> }

\* the server types of the model are Unknown, Standalone, Mongos, RSPrimary and
\* RSSecondary; the last two are the types of the members of a replica set
RSMemberTypes == {"RSPrimary", "RSSecondary"}
\* the round trip times measured to a server: "a" is near, "b" is far
RoundTripTimes(address) == IF address[1] = "a" THEN {5} ELSE {40}
SetNames == {"rs0", "rs1"}
HostLists == { {<<"a", DefaultPort>>}, {<<"a", DefaultPort>>, <<"b", DefaultPort>>} }
\* (setVersion, electionId) pairs a primary reports
Versions == { <<1, 2>>, <<2, 1>> }

(***************************************************************************)
(* ServerDescription.                                                      *)
(***************************************************************************)
\* new ServerDescription(address): nothing is known of the server yet
ServerDescription(address) ==
  [address |-> address, type |-> "Unknown", roundTripTime |-> 0]

\* The descriptions the monitor of address a hands to serverUpdateHandler: the
\* outcome of one heartbeat (an error gives type Unknown, without reply metadata).
ReportsFrom(a) ==
  { [address |-> a, type |-> "Unknown", roundTripTime |-> 0,
     setName |-> Undefined, setVersion |-> 0, electionId |-> 0, hosts |-> {}] }
  \cup
  { [address |-> a, type |-> t, roundTripTime |-> r,
     setName |-> Undefined, setVersion |-> 0, electionId |-> 0, hosts |-> {}]
      : t \in {"Standalone", "Mongos"}, r \in RoundTripTimes(a) }
  \cup
  { [address |-> a, type |-> "RSSecondary", roundTripTime |-> r,
     setName |-> n, setVersion |-> 0, electionId |-> 0, hosts |-> h]
      : r \in RoundTripTimes(a), n \in SetNames, h \in HostLists }
  \cup
  { [address |-> a, type |-> "RSPrimary", roundTripTime |-> r,
     setName |-> n, setVersion |-> v[1], electionId |-> v[2], hosts |-> h]
      : r \in RoundTripTimes(a), n \in SetNames, h \in HostLists, v \in Versions }

Reports == UNION {ReportsFrom(a) : a \in Addresses}

\* What a TopologyDescription keeps of a reported description: the fields that
\* the fold and the selection read back from a member. The reply metadata
\* (hosts, setName, setVersion, electionId) is consumed by the fold when the
\* report arrives and is summarised in the TopologyDescription itself.
Entry(sd) ==
  [address |-> sd.address, type |-> sd.type, roundTripTime |-> sd.roundTripTime]

(***************************************************************************)
(* TopologyDescription.                                                    *)
(***************************************************************************)
TopologyDescription(type, servers, setName, maxSetVersion, maxElectionId) ==
  [type |-> type, servers |-> servers, setName |-> setName,
   maxSetVersion |-> maxSetVersion, maxElectionId |-> maxElectionId]

hasServer(desc, address) == address \in DOMAIN desc.servers

Primaries(servers) == {a \in DOMAIN servers : servers[a].type = "RSPrimary"}

checkHasPrimary(servers) ==
  IF Primaries(servers) # {} THEN "ReplicaSetWithPrimary" ELSE "ReplicaSetNoPrimary"

\* A variant of topologyTypeForServerType with a slip: no server type implies a
\* topology type.
topologyTypeKept(serverType, current) == current

\* the topology type a server type implies for a topology of type Unknown
topologyTypeForServerType(serverType, current) ==
  CASE serverType = "Standalone" -> "Single"
    [] serverType = "RSPrimary" -> "ReplicaSetWithPrimary"
    [] serverType = "RSSecondary" -> "ReplicaSetNoPrimary"
    [] serverType = "Mongos" -> "Sharded"
    [] OTHER -> current

\* a primary's (setVersion, electionId) below the maximum seen so far
isStalePrimary(desc, sd) ==
  /\ sd.type = "RSPrimary"
  /\ \/ sd.setVersion < desc.maxSetVersion
     \/ sd.setVersion = desc.maxSetVersion /\ sd.electionId < desc.maxElectionId

\* A variant of updateReplicaSet with a slip: a server that claims primary does
\* not demote the members that are primary already.
updateReplicaSetKeepingPrimaries(desc, sd) ==
  IF sd.type \notin RSMemberTypes
  THEN LET servers == [desc.servers EXCEPT ![sd.address] = Entry(sd)]
       IN  [desc EXCEPT !.servers = servers, !.type = checkHasPrimary(servers)]
  ELSE IF desc.setName # Undefined /\ sd.setName # desc.setName
  THEN LET servers == [desc.servers EXCEPT ![sd.address] = ServerDescription(sd.address)]
       IN  [desc EXCEPT !.servers = servers, !.type = checkHasPrimary(servers)]
  ELSE IF isStalePrimary(desc, sd)
  THEN desc
  ELSE LET member(a) ==
             IF a = sd.address THEN Entry(sd)
             ELSE IF a \notin DOMAIN desc.servers THEN ServerDescription(a)
             ELSE desc.servers[a]
           servers == [a \in sd.hosts |-> member(a)]
       IN  TopologyDescription(
             checkHasPrimary(servers),
             servers,
             sd.setName,
             IF sd.type = "RSPrimary" THEN sd.setVersion ELSE desc.maxSetVersion,
             IF sd.type = "RSPrimary" THEN sd.electionId ELSE desc.maxElectionId)

\* the fold for a topology of type ReplicaSetNoPrimary / ReplicaSetWithPrimary
updateReplicaSet(desc, sd) ==
  IF sd.type \notin RSMemberTypes
  THEN \* an error report, or a server that is no member of a set
       LET servers == [desc.servers EXCEPT ![sd.address] = Entry(sd)]
       IN  [desc EXCEPT !.servers = servers, !.type = checkHasPrimary(servers)]
  ELSE IF desc.setName # Undefined /\ sd.setName # desc.setName
  THEN \* mismatched set name: the server is demoted to Unknown
       LET servers == [desc.servers EXCEPT ![sd.address] = ServerDescription(sd.address)]
       IN  [desc EXCEPT !.servers = servers, !.type = checkHasPrimary(servers)]
  ELSE IF isStalePrimary(desc, sd)
  THEN \* a stale primary claim is ignored
       desc
  ELSE LET member(a) ==
             IF a = sd.address THEN Entry(sd)
             ELSE IF a \notin DOMAIN desc.servers THEN ServerDescription(a)
             ELSE IF sd.type = "RSPrimary" /\ desc.servers[a].type = "RSPrimary"
                  THEN ServerDescription(a)
                  ELSE desc.servers[a]
           \* the reported host list replaces the membership
           servers == [a \in sd.hosts |-> member(a)]
       IN  TopologyDescription(
             checkHasPrimary(servers),
             servers,
             sd.setName,
             IF sd.type = "RSPrimary" THEN sd.setVersion ELSE desc.maxSetVersion,
             IF sd.type = "RSPrimary" THEN sd.electionId ELSE desc.maxElectionId)

\* TopologyDescription.update: fold one ServerDescription into a snapshot
update(desc, sd) ==
  IF ~hasServer(desc, sd.address) THEN desc
  ELSE CASE desc.type = "Single" ->
              [desc EXCEPT !.servers[sd.address] = Entry(sd)]
         [] desc.type = "Unknown" ->
              [desc EXCEPT !.servers[sd.address] = Entry(sd),
                           !.type = topologyTypeForServerType(sd.type, desc.type)]
         [] desc.type = "Sharded" ->
              \* open membership: a report of a router (or an error) is accepted
              IF sd.type \in {"Mongos", "Unknown"}
              THEN [desc EXCEPT !.servers[sd.address] = Entry(sd)]
              ELSE desc
         [] OTHER -> updateReplicaSet(desc, sd)

(***************************************************************************)
(* The state of a Topology and of its surroundings.                        *)
(***************************************************************************)
VARIABLES
  seedlist,     \* this.s.seedlist
  options,      \* this.s.options (the replicaset option)
  description,  \* this.s.description
  servers,      \* this.s.servers: undefined before connect, else address -> Server
  connects,     \* the number of connect() calls so far
  now,          \* the high resolution clock, in milliseconds
  op,           \* the last step (a call on the topology, or a tick of the clock)
                \* and what it gave its caller
  emitted       \* the events the last step emitted, in order

vars == <<seedlist, options, description, servers, connects, now, op, emitted>>


(***************************************************************************)
(* Events, errors and Server objects.                                      *)
(***************************************************************************)
\* the value of an event field that the event does not carry
NoValue == [type |-> "null"]

\* what a listener gets: the name of the event, the address it is about, the
\* previous and the new description it carries, and this.s.description as a
\* listener reads it while the event is emitted
Changed(name, address, previous, current, visible) ==
  [name |-> name, address |-> address, previous |-> previous,
   current |-> current, visible |-> visible]

Event(name, address) == Changed(name, address, NoValue, NoValue, NoValue)

NoError == [name |-> "null", timeout |-> 0]
\* what the caller's selector throws
PredicateError == [name |-> "PredicateError", timeout |-> 0]
\* new MongoTimeoutError(`Server selection timed out after ${timeout} ms`)
MongoTimeoutError(timeout) == [name |-> "MongoTimeoutError", timeout |-> timeout]

\* a Server object: who constructed it, for which address, in which connect()
Server(by, address, epoch) == [by |-> by, address |-> address, epoch |-> epoch]
NoServer == Server("null", NoAddress, 0)

\* this.s.servers: the constructor does not set it, connectServers sets a Map
UndefinedServers == [defined |-> FALSE, map |-> <<>>]
ServersMap(map) == [defined |-> TRUE, map |-> map]

\* the elements of a set, in a fixed order
RECURSIVE SetToSeq(_)
SetToSeq(S) ==
  IF S = {} THEN <<>>
  ELSE LET x == CHOOSE y \in S : TRUE IN <<x>> \o SetToSeq(S \ {x})

\* no ServerDescription
NoReport == [type |-> "null"]

\* What a call leaves to observe: the exception it threw, what it passed to its
\* callback (called: how often; err, server), the Server objects it constructed
\* and those it called destroy() on; for selectServer also its arguments, the
\* number of calls of the selector, the servers given to randomSelection and
\* the milliseconds between the call and its callback.
Call(name, address) ==
  [name |-> name, address |-> address, thrown |-> "none",
   selector |-> Undefined, timeout |-> 0, called |-> 0, err |-> NoError,
   server |-> NoServer, candidates |-> {}, predicateCalls |-> 0,
   elapsed |-> 0, created |-> {}, destroyed |-> {},
   \* whether the step before was the same call with the same argument, and
   \* returned
   again |-> FALSE,
   \* serverUpdateHandler: its argument (where the call is observed with it),
   \* whether it passed the member check, and the argument of the call a
   \* listener made while it ran
   report |-> NoReport, accepted |-> FALSE, reentered |-> NoReport,
   \* selectServer: the duration it compared with the timeout
   duration |-> 0]

(***************************************************************************)
(* The constructor.                                                        *)
(***************************************************************************)
\* A variant of topologyTypeFromSeedlist with a slip: a single seed gives
\* Single whatever the options are.
topologyTypeFromSeedlistBySize(seeds, opts) ==
  IF Len(seeds) = 1 THEN "Single"
  ELSE IF opts.replicaset # Undefined THEN "ReplicaSetNoPrimary"
  ELSE "Unknown"

topologyTypeFromSeedlist(seeds, opts) ==
  IF Len(seeds) = 1 /\ opts.replicaset = Undefined THEN "Single"
  ELSE IF opts.replicaset # Undefined THEN "ReplicaSetNoPrimary"
  ELSE "Unknown"

\* `${seed.host}:${seed.port}`, or `${seed.host}:27017` for a seed without port
SeedAddress(seed) ==
  IF seed.port # NoPort THEN <<seed.host, seed.port>> ELSE <<seed.host, DefaultPort>>

\* seedlist.reduce(...): one Unknown ServerDescription per seed, keyed by address
serverDescriptions(seeds) ==
  [a \in {SeedAddress(seeds[i]) : i \in 1..Len(seeds)} |-> ServerDescription(a)]

Init ==
  /\ seedlist \in SeedLists
  /\ \E replicaset \in ReplicaSetOptions : options = [replicaset |-> replicaset]
  /\ description = TopologyDescription(
                     topologyTypeFromSeedlist(seedlist, options),
                     serverDescriptions(seedlist),
                     options.replicaset, 0, 0)
  /\ servers = UndefinedServers
  /\ connects = 0
  /\ now = TickMs
  /\ op = Call("constructor", NoAddress)
  /\ emitted = <<>>

(***************************************************************************)
(* connect.                                                                *)
(***************************************************************************)
\* A variant of connectServers with a slip: it stops after the first address.
connectServersFirstOnly(addresses, epoch) ==
  [a \in {x \in addresses : x = SetToSeq(addresses)[1]} |->
     Server("connectServers", a, epoch)]

\* connectServers(topology, servers): a new Server per address, in a new Map
connectServers(addresses, epoch) ==
  [a \in addresses |-> Server("connectServers", a, epoch)]

\* connect(), for a caller that calls it at most limit times
connectUpTo(limit) ==
  /\ connects < limit
  /\ LET addresses == DOMAIN description.servers
         created == connectServers(addresses, connects + 1)
     IN  /\ servers' = ServersMap(created)
         /\ op' = [Call("connect", NoAddress) EXCEPT
                      !.created = {created[a] : a \in DOMAIN created}]
         /\ emitted' = << Event("topologyOpening", NoAddress),
                          \* new TopologyDescription(TopologyType.Unknown)
                          \* and this.s.description
                          Changed("topologyDescriptionChanged", NoAddress,
                                  TopologyDescription("Unknown", <<>>, Undefined, 0, 0),
                                  description, description) >>
                       \o [i \in 1..Cardinality(addresses) |->
                             Event("serverOpening", SetToSeq(addresses)[i])]
  /\ connects' = connects + 1
  /\ UNCHANGED <<seedlist, options, description, now>>

connect == connectUpTo(MaxConnects)

(***************************************************************************)
(* close.                                                                  *)
(***************************************************************************)
close ==
  /\ IF ~servers.defined
     THEN \* this.s.servers.forEach of undefined
          /\ op' = [Call("close", NoAddress) EXCEPT !.thrown = "TypeError"]
          /\ emitted' = <<>>
     ELSE \* server.destroy() for each Server of the map, which is kept as it
          \* is; then the event, then callback(null, null)
          /\ emitted' = << Event("topologyClosed", NoAddress) >>
          /\ op' = [Call("close", NoAddress) EXCEPT
                      !.called = 1,
                      !.destroyed = {servers.map[a] : a \in DOMAIN servers.map},
                      !.again = (op.name = "close" /\ op.thrown = "none")]
  /\ UNCHANGED <<seedlist, options, description, servers, connects, now>>

(***************************************************************************)
(* serverUpdateHandler.                                                    *)
(***************************************************************************)
\* the addresses updateServers removes from the map of servers
noLongerKnown(desc, srvs) == {a \in DOMAIN srvs : ~hasServer(desc, a)}

\* updateServers(topology): the map of servers after it
updateServers(desc, srvs) ==
  [a \in DOMAIN srvs \ noLongerKnown(desc, srvs) |-> srvs[a]]

\* A variant of isMember with a slip: no update is dropped.
isMemberUnchecked(desc, sd) == TRUE

\* line 158: an update for an address that is no member is dropped
isMember(desc, sd) == hasServer(desc, sd.address)

\* line 167: the description that replaces this.s.description
foldUpdate(desc, sd) == update(desc, sd)

\* lines 180-190, with this.s.description already replaced: updateServers,
\* then the topologyDescriptionChanged event from the description saved at
\* line 163 to this.s.description
reconcile(previous, desc, srvs) ==
  IF ~srvs.defined
  THEN \* updateServers iterates this.s.servers, which is undefined
       [servers |-> srvs, thrown |-> "TypeError", destroyed |-> {}, emitted |-> <<>>]
  ELSE \* server.destroy(cb) runs cb, which emits serverClosed
       LET gone == noLongerKnown(desc, srvs.map)
       IN  [servers |-> ServersMap(updateServers(desc, srvs.map)),
            thrown |-> "none",
            destroyed |-> {srvs.map[a] : a \in gone},
            emitted |-> [i \in 1..Cardinality(gone) |->
                           Event("serverClosed", SetToSeq(gone)[i])]
                        \o << Changed("topologyDescriptionChanged", NoAddress,
                                      previous, desc, desc) >>]

\* lines 170-177: the serverDescriptionChanged event, emitted when desc has
\* replaced previous as this.s.description
serverDescriptionChanged(previous, desc, sd) ==
  Changed("serverDescriptionChanged", sd.address,
          IF hasServer(previous, sd.address) THEN previous.servers[sd.address] ELSE NoValue,
          IF hasServer(desc, sd.address) THEN desc.servers[sd.address] ELSE NoValue,
          desc)

\* topology.serverUpdateHandler(sd) with no listener that calls the topology:
\* what it leaves of this.s.description and this.s.servers, and what it emits
handleUpdate(desc, srvs, sd) ==
  IF ~isMember(desc, sd)
  THEN [description |-> desc, servers |-> srvs, accepted |-> FALSE,
        thrown |-> "none", destroyed |-> {}, emitted |-> <<>>]
  ELSE LET current == foldUpdate(desc, sd)
           r == reconcile(desc, current, srvs)
       IN  [description |-> current, servers |-> r.servers, accepted |-> TRUE,
            thrown |-> r.thrown, destroyed |-> r.destroyed,
            emitted |-> << serverDescriptionChanged(desc, current, sd) >> \o r.emitted]

\* topology.serverUpdateHandler(sd) with a listener of serverDescriptionChanged
\* that calls topology.serverUpdateHandler(inner): emit runs the listener
\* before it returns, so the inner call runs between line 177 and line 180
handleUpdateReentered(desc, srvs, sd, inner) ==
  IF ~isMember(desc, sd)
  THEN handleUpdate(desc, srvs, sd)
  ELSE LET current == foldUpdate(desc, sd)
           first == << serverDescriptionChanged(desc, current, sd) >>
           n == handleUpdate(current, srvs, inner)
           r == reconcile(desc, n.description, n.servers)
       IN  IF n.thrown # "none"
           THEN \* what the listener throws leaves emit and the handler
                [description |-> n.description, servers |-> n.servers,
                 accepted |-> TRUE, thrown |-> n.thrown, destroyed |-> n.destroyed,
                 emitted |-> first \o n.emitted]
           ELSE [description |-> n.description, servers |-> r.servers,
                 accepted |-> TRUE, thrown |-> r.thrown,
                 destroyed |-> n.destroyed \cup r.destroyed,
                 emitted |-> first \o n.emitted \o r.emitted]

serverUpdateHandler(sd) ==
  \E r \in {handleUpdate(description, servers, sd)} :
      /\ description' = r.description
      /\ servers' = r.servers
      /\ emitted' = r.emitted
      /\ op' = [Call("serverUpdateHandler", sd.address) EXCEPT
                  !.thrown = r.thrown, !.destroyed = r.destroyed,
                  !.accepted = r.accepted]
      /\ UNCHANGED <<seedlist, options, connects, now>>

\* the last step was serverUpdateHandler(sd), not interrupted by a listener
RepeatedReport(sd) ==
  op.name = "serverUpdateHandler" /\ op.report = sd /\ op.reentered = NoReport

\* serverUpdateHandler(sd), observed together with its argument
serverUpdateHandlerRecorded(sd) ==
  \E r \in {handleUpdate(description, servers, sd)} :
      /\ description' = r.description
      /\ servers' = r.servers
      /\ emitted' = r.emitted
      /\ op' = [Call("serverUpdateHandler", sd.address) EXCEPT
                  !.thrown = r.thrown, !.destroyed = r.destroyed,
                  !.report = sd, !.accepted = r.accepted,
                  !.again = RepeatedReport(sd)]
      /\ UNCHANGED <<seedlist, options, connects, now>>

\* the reports of a failed heartbeat, which the listener waits for and which
\* it passes to serverUpdateHandler itself
ListenerReports == {sd \in Reports : sd.type = "Unknown"}

\* serverUpdateHandler(sd) while a listener of serverDescriptionChanged is
\* registered that calls serverUpdateHandler(inner), once
serverUpdateHandlerReentered(sd, inner) ==
  \E r \in {handleUpdateReentered(description, servers, sd, inner)} :
      /\ isMember(description, sd)
      /\ description' = r.description
      /\ servers' = r.servers
      /\ emitted' = r.emitted
      /\ op' = [Call("serverUpdateHandler", sd.address) EXCEPT
                  !.thrown = r.thrown, !.destroyed = r.destroyed,
                  !.report = sd, !.accepted = r.accepted,
                  !.reentered = inner]
      /\ UNCHANGED <<seedlist, options, connects, now>>

(***************************************************************************)
(* selectServer.                                                           *)
(***************************************************************************)
\* process.hrtime(): the clock as [seconds, nanoseconds]
hrtime(clockMs) == << clockMs \div 1000, (clockMs % 1000) * 1000000 >>

\* process.hrtime(time): the clock's difference to an earlier reading
hrtimeSince(clockMs, time) ==
  LET c == hrtime(clockMs)
      s == c[1] - time[1]
      n == c[2] - time[2]
  IN  IF n < 0 THEN << s - 1, n + 1000000000 >> ELSE << s, n >>

\* calculateDurationInMs(started)
calculateDurationInMs(clockMs, started) ==
  LET t == hrtimeSince(clockMs, started)
  IN  (t[1] * 1000000000 + t[2]) \div 1000000

\* the selectors a caller passes: none, one that throws, one that matches
\* nothing, one that matches the servers of a known type
Selectors == {Undefined, "throws", "nothing", "known"}

\* selector(topology.description, serverDescriptions), for a selector that returns
selected(selector, desc) ==
  LET all == {desc.servers[a] : a \in DOMAIN desc.servers}
  IN  CASE selector = "nothing" -> {}
        [] selector = "known" -> {d \in all : d.type # "Unknown"}
        [] OTHER -> all

\* A variant of selectServers with a slip: what the selector throws is
\* swallowed, and the selection goes on with no descriptions.
selectServersSwallowing(desc, selector, timeout, start, clockMs) ==
  LET descriptions ==
        IF selector = "throws" THEN {}
        ELSE IF selector # Undefined THEN selected(selector, desc)
        ELSE {desc.servers[a] : a \in DOMAIN desc.servers}
      duration == calculateDurationInMs(clockMs, hrtimeSince(clockMs, start))
  IN  IF descriptions # {}
      THEN [called |-> 1, err |-> NoError, duration |-> 0,
            servers |-> {Server("selectServers", d.address, 0) : d \in descriptions}]
      ELSE IF duration > timeout
      THEN [called |-> 1, err |-> MongoTimeoutError(timeout), duration |-> duration,
                 servers |-> {}]
      ELSE [called |-> 0, err |-> NoError, duration |-> duration, servers |-> {}]

\* selectServers(topology, selector, timeout, start, callback): how often it
\* calls back, and with which error and servers. It returns after one attempt:
\* nothing is scheduled when it finds no description and no timeout.
selectServers(desc, selector, timeout, start, clockMs) ==
  IF selector = "throws"
  THEN [called |-> 1, err |-> PredicateError, duration |-> 0, servers |-> {}]
  ELSE LET descriptions ==
             IF selector # Undefined THEN selected(selector, desc)
             ELSE {desc.servers[a] : a \in DOMAIN desc.servers}
           duration == calculateDurationInMs(clockMs, hrtimeSince(clockMs, start))
       IN  IF descriptions # {}
           THEN [called |-> 1, err |-> NoError, duration |-> 0,
                 servers |-> {Server("selectServers", d.address, 0) : d \in descriptions}]
           ELSE IF duration > timeout
           THEN [called |-> 1, err |-> MongoTimeoutError(timeout), duration |-> duration,
                 servers |-> {}]
           ELSE [called |-> 0, err |-> NoError, duration |-> duration, servers |-> {}]

\* the serverSelectionTimeoutMS a caller passes in options; a caller that
\* passes none gets this.s.serverSelectionTimeoutMS
SelectionTimeouts == {0, 250}

\* randomSelection(array): any element of the array may be the one returned
randomSelection(array) == array

selectServer(selector, timeout) ==
  \E r \in {selectServers(description, selector, timeout, hrtime(now), now)} :
  LET call == [Call("selectServer", NoAddress) EXCEPT
                 !.selector = selector, !.timeout = timeout, !.called = r.called,
                 !.err = r.err, !.candidates = r.servers, !.created = r.servers,
                 !.duration = r.duration,
                 !.predicateCalls = IF selector = Undefined THEN 0 ELSE 1,
                 \* the callback, if any, runs before selectServer returns
                 !.elapsed = calculateDurationInMs(now, hrtime(now))]
  IN  /\ IF r.servers = {}
         THEN op' = call
         ELSE \* randomSelection(servers)
              \E s \in randomSelection(r.servers) : op' = [call EXCEPT !.server = s]
      /\ emitted' = <<>>
      /\ UNCHANGED <<seedlist, options, description, servers, connects, now>>

(***************************************************************************)
(* Time passes.                                                            *)
(***************************************************************************)
Tick ==
  /\ now < (MaxTicks + 1) * TickMs
  /\ now' = now + TickMs
  /\ op' = Call("tick", NoAddress)
  /\ emitted' = <<>>
  /\ UNCHANGED <<seedlist, options, description, servers, connects>>

Next ==
  \/ connect
  \/ close
  \/ \E sd \in Reports : serverUpdateHandler(sd)
  \/ \E selector \in Selectors, timeout \in SelectionTimeouts \cup {serverSelectionTimeoutMS} :
       selectServer(selector, timeout)
  \/ Tick

Spec == Init /\ [][Next]_vars

\* The topology and its monitors, without callers of selectServer: each call of
\* serverUpdateHandler is observed with its argument, and a listener may call
\* serverUpdateHandler while the handler emits serverDescriptionChanged.
NextReentered ==
  \/ connect
  \/ close
  \/ \E sd \in Reports : serverUpdateHandlerRecorded(sd)
  \/ \E sd \in ListenerReports, inner \in ListenerReports :
       serverUpdateHandlerReentered(sd, inner)

SpecReentered == Init /\ [][NextReentered]_vars

\* The topology and its monitors, without callers of selectServer, for a caller
\* that calls connect() again.
NextReconnected ==
  \/ connectUpTo(MaxReconnects)
  \/ close
  \/ \E sd \in Reports : serverUpdateHandler(sd)

SpecReconnected == Init /\ [][NextReconnected]_vars


(***************************************************************************)
(* Properties.                                                             *)
(***************************************************************************)
Members == DOMAIN description.servers

\* the last step was a serverUpdateHandler call that passed the member check
AcceptedUpdate == op.name = "serverUpdateHandler" /\ emitted # <<>>

\* C1: after any sequence of updates the description never has more than one
\* member of type RSPrimary.
C1_AtMostOnePrimary == Cardinality(Primaries(description.servers)) <= 1

\* C2: a topology of type ReplicaSetWithPrimary has exactly one member of type
\* RSPrimary, and an update that leaves a ReplicaSetWithPrimary topology
\* without a primary makes it ReplicaSetNoPrimary in the same step.
C2_ExactlyOnePrimary ==
  /\ [](description.type = "ReplicaSetWithPrimary"
          => Cardinality(Primaries(description.servers)) = 1)
  /\ [][(/\ description.type = "ReplicaSetWithPrimary"
         /\ Primaries(description'.servers) = {})
          => description'.type = "ReplicaSetNoPrimary"]_vars

\* a topology with a primary and another member, after an accepted update
C2_Witness ==
  /\ AcceptedUpdate
  /\ description.type = "ReplicaSetWithPrimary"
  /\ Cardinality(Members) = 2
  /\ Cardinality(Primaries(description.servers)) = 1

\* C3: serverUpdateHandler for an address that is no member changes neither the
\* description nor the map of servers, constructs and destroys no Server,
\* emits no event and throws nothing.
C3_NonMemberUpdateIsNoOp ==
  [][(op'.name = "serverUpdateHandler" /\ ~hasServer(description, op'.address))
       => /\ UNCHANGED <<description, servers>>
          /\ emitted' = <<>>
          /\ op'.created = {} /\ op'.destroyed = {}
          /\ op'.thrown = "none"]_vars

\* an update for a non-member of a connected topology that has members
C3_Witness ==
  /\ op.name = "serverUpdateHandler"
  /\ op.address \notin Members
  /\ Members # {}
  /\ servers.defined
  /\ emitted = <<>>

\* C4: after connect, once an accepted serverUpdateHandler call has returned,
\* the map of servers holds exactly the member addresses of the description.
C4_MonitorsMatchMembers ==
  (AcceptedUpdate /\ servers.defined) => DOMAIN servers.map = Members

\* C5: a selectServer call whose selector matches nothing does not call back
\* before serverSelectionTimeoutMS has passed; when it calls back it is with
\* the timeout error carrying that bound, and with a timeout of 0 it calls
\* back with the timeout error at once.
C5_TimeoutAfterBound ==
  (op.name = "selectServer" /\ op.selector = "nothing")
    => /\ op.called = 1 => (op.err = MongoTimeoutError(op.timeout) /\ op.elapsed >= op.timeout)
       /\ op.timeout = 0 => (op.called = 1 /\ op.err = MongoTimeoutError(0))

\* C6: every selectServer call calls back exactly once: a call that has
\* returned with nothing left to run (no timer, no retry) has called back.
C6_CallbackExactlyOnce ==
  op.name = "selectServer" => op.called = 1

\* C7: the server a successful selectServer passes to its callback is the
\* Server stored in the map of servers under its address, and selectServer
\* constructs no Server.
C7_SelectedIsStoredServer ==
  (op.name = "selectServer" /\ op.called = 1 /\ op.err = NoError)
    => /\ op.created = {}
       /\ servers.defined
       /\ op.server.address \in DOMAIN servers.map
       /\ servers.map[op.server.address] = op.server

\* the members the selector of the last selectServer call matches
Matched == IF op.selector = Undefined
           THEN {description.servers[a] : a \in Members}
           ELSE selected(op.selector, description)

\* the matched members within localThresholdMS of the fastest matched member
LatencyWindow(matched) ==
  {d \in matched : \A e \in matched : d.roundTripTime <= e.roundTripTime + localThresholdMS}

\* C8: the servers selectServer picks from are exactly the matched members whose
\* round trip time is at most the least matched round trip time plus
\* localThresholdMS (stated for a selector that matches the members of a known
\* type, whose round trip times have been measured).
C8_CandidatesWithinWindow ==
  (op.name = "selectServer" /\ op.selector = "known" /\ Matched # {})
    => {s.address : s \in op.candidates} = {d.address : d \in LatencyWindow(Matched)}

\* C9: without a selector, selectServer matches exactly the members whose type
\* is not Unknown: it passes no server of type Unknown to its callback.
C9_DefaultSkipsUnknown ==
  (op.name = "selectServer" /\ op.selector = Undefined)
    => {s.address : s \in op.candidates}
         = {a \in Members : description.servers[a].type # "Unknown"}

\* C10: when the selector throws, selectServer calls back exactly once with
\* that error and no server, calls the selector once, and leaves the
\* description and the map of servers as they were.
C10_PredicateErrorPropagates ==
  /\ []((op.name = "selectServer" /\ op.selector = "throws")
          => /\ op.called = 1
             /\ op.err = PredicateError
             /\ op.server = NoServer
             /\ op.predicateCalls = 1)
  /\ [][(op'.name = "selectServer" /\ op'.selector = "throws")
          => UNCHANGED <<description, servers>>]_vars

\* a throwing selector on a connected topology with members
C10_Witness ==
  /\ op.name = "selectServer"
  /\ op.selector = "throws"
  /\ op.called = 1
  /\ op.err = PredicateError
  /\ servers.defined
  /\ Members # {}

\* C11: close() is idempotent: a second and any later call raises no error,
\* calls destroy on no monitor and emits nothing, so that over all calls each
\* monitor is destroyed once and one topologyClosed event is emitted.
C11_CloseIsIdempotent ==
  (op.name = "close" /\ op.again)
    => /\ op.thrown = "none"
       /\ op.destroyed = {}
       /\ emitted = <<>>

\* the events of the serverUpdateHandler and of the reconciliation
UpdateEvents ==
  {"serverDescriptionChanged", "topologyDescriptionChanged", "serverOpening", "serverClosed"}

\* C12: close() is terminal: a serverUpdateHandler call made after close() has
\* returned changes neither the description nor the map of servers, creates no
\* monitor and emits none of serverDescriptionChanged,
\* topologyDescriptionChanged, serverOpening and serverClosed.
C12_CloseIsTerminal ==
  [][(op.name = "close" /\ op.thrown = "none" /\ op'.name = "serverUpdateHandler")
       => /\ UNCHANGED <<description, servers>>
          /\ op'.created = {}
          /\ \A i \in DOMAIN emitted' : emitted'[i].name \notin UpdateEvents]_vars

\* the description the constructor builds from the seedlist and the options
InitialDescription ==
  TopologyDescription(topologyTypeFromSeedlist(seedlist, options),
                      serverDescriptions(seedlist), options.replicaset, 0, 0)

\* C13 (as stated): connect() emits topologyOpening, then
\* topologyDescriptionChanged from a synthetic Unknown description to the
\* description the constructor built, then a serverOpening per address of that
\* constructed description, and leaves one monitor per address of it.
C13_ConnectOpensInitial ==
  op.name = "connect"
    => /\ emitted[2].current = InitialDescription
       /\ {emitted[i].address : i \in 3..Len(emitted)} = DOMAIN InitialDescription.servers
       /\ DOMAIN servers.map = DOMAIN InitialDescription.servers

\* C13 (amended): connect() emits, in this order, one topologyOpening, one
\* topologyDescriptionChanged whose previous is a synthetic Unknown description
\* without members and whose current is the description the topology holds when
\* connect() is called (the constructed one when no update was folded before),
\* then for each address of that description one serverOpening with one new
\* monitor; when it returns the map of servers holds exactly one monitor per
\* address of that description, and connect() leaves the description as it is
\* (it waits for no heartbeat).
C13_ConnectOpensCurrent ==
  /\ [](op.name = "connect"
          => /\ Len(emitted) = 2 + Cardinality(Members)
             /\ emitted[1] = Event("topologyOpening", NoAddress)
             /\ emitted[2].name = "topologyDescriptionChanged"
             /\ emitted[2].previous = TopologyDescription("Unknown", <<>>, Undefined, 0, 0)
             /\ emitted[2].current = description
             /\ \A i \in 3..Len(emitted) : emitted[i].name = "serverOpening"
             /\ {emitted[i].address : i \in 3..Len(emitted)} = Members
             /\ servers.defined
             /\ DOMAIN servers.map = Members
             /\ op.created = {servers.map[a] : a \in Members}
             /\ Cardinality(op.created) = Cardinality(Members)
             /\ op.thrown = "none")
  /\ [][op'.name = "connect" => UNCHANGED description]_vars

\* connect() on a topology of two members whose description is no longer the
\* constructed one
C13_Witness ==
  /\ op.name = "connect"
  /\ Cardinality(Members) = 2
  /\ description # InitialDescription
  /\ Len(emitted) = 4

\* C14: for every accepted update the handler emits serverDescriptionChanged
\* (previous, new), then the serverClosed / serverOpening events of the
\* reconciliation, then topologyDescriptionChanged (previous, new); each of the
\* two description-changed events is emitted when the new description is
\* installed, so that a listener reads as this.s.description what the event
\* carries as current.
C14_EventOrder ==
  (op.name = "serverUpdateHandler" /\ op.accepted)
    => /\ Len(emitted) >= 2
       /\ emitted[1].name = "serverDescriptionChanged"
       /\ emitted[1].address = op.address
       /\ hasServer(emitted[1].visible, op.address)
            => emitted[1].current = emitted[1].visible.servers[op.address]
       /\ \A i \in 2..(Len(emitted) - 1) : emitted[i].name \in {"serverClosed", "serverOpening"}
       /\ emitted[Len(emitted)].name = "topologyDescriptionChanged"
       /\ emitted[Len(emitted)].current = emitted[Len(emitted)].visible
       /\ emitted[Len(emitted)].current = description

\* C15: when the same ServerDescription is applied twice in a row, the second
\* application leaves the TopologyDescription equal to the one after the first
\* and emits neither serverDescriptionChanged nor topologyDescriptionChanged.
C15_SecondApplicationIsSilent ==
  [][(/\ op'.name = "serverUpdateHandler"
      /\ op'.accepted
      /\ op'.again
      /\ op'.thrown = "none")
       => /\ description' = description
          /\ \A i \in DOMAIN emitted' :
               emitted'[i].name \notin {"serverDescriptionChanged", "topologyDescriptionChanged"}]_vars

\* C16: the type of a constructed topology is a function of the seedlist and
\* the options only: ReplicaSetNoPrimary whenever a replicaset option is set,
\* for a seedlist of any length, one seed included; Single for exactly one seed
\* and no replicaset option; Unknown otherwise. Every seed becomes one member
\* of type Unknown, keyed by host:port, with port 27017 for a seed without port.
C16_InitialTypeFromSeedlist ==
  op.name = "constructor"
    => /\ description.type =
            (IF options.replicaset # Undefined THEN "ReplicaSetNoPrimary"
             ELSE IF Len(seedlist) = 1 THEN "Single"
             ELSE "Unknown")
       /\ Members = { << seedlist[i].host,
                         IF seedlist[i].port = NoPort THEN 27017 ELSE seedlist[i].port >>
                        : i \in 1..Len(seedlist) }
       /\ Cardinality(Members) = Len(seedlist)
       /\ \A a \in Members : /\ description.servers[a].type = "Unknown"
                             /\ description.servers[a].address = a

\* a topology constructed from one seed without port and a replicaset option
C16_Witness ==
  /\ op.name = "constructor"
  /\ Len(seedlist) = 1
  /\ seedlist[1].port = NoPort
  /\ options.replicaset # Undefined
  /\ description.type = "ReplicaSetNoPrimary"
  /\ Members = { <<seedlist[1].host, 27017>> }

\* the step is a serverUpdateHandler call that passed the member check
AcceptedStep ==
  op'.name = "serverUpdateHandler" /\ op'.accepted /\ op'.reentered = NoReport

\* an accepted update re-types a topology of type Unknown by the reported type
UnknownIsRetyped ==
  (AcceptedStep /\ description.type = "Unknown")
    => /\ op'.report.type = "Standalone" => description'.type = "Single"
       /\ op'.report.type = "RSPrimary" => description'.type = "ReplicaSetWithPrimary"
       /\ op'.report.type = "RSSecondary" => description'.type = "ReplicaSetNoPrimary"
       /\ op'.report.type = "Mongos" => description'.type = "Sharded"

\* an accepted update leaves a topology of type Single of type Single
SingleIsKept ==
  (AcceptedStep /\ description.type = "Single") => description'.type = "Single"

\* C17 (as stated): folding an update of a member into a topology of type
\* Unknown re-types it by the reported type (Standalone to Single, RSPrimary to
\* ReplicaSetWithPrimary, another member of a set to ReplicaSetNoPrimary, Mongos
\* to Sharded); in a topology constructed with the replicaset option an
\* RSPrimary report yields ReplicaSetWithPrimary; Single is never re-typed.
C17_PrimaryReportGivesPrimary ==
  [][/\ UnknownIsRetyped
     /\ (AcceptedStep /\ options.replicaset # Undefined /\ op'.report.type = "RSPrimary")
          => description'.type = "ReplicaSetWithPrimary"
     /\ SingleIsKept]_vars

\* C17 (amended): as stated, but in a topology constructed with the replicaset
\* option an RSPrimary report yields ReplicaSetWithPrimary when it carries the
\* set name of the topology, lists the reporting server among its hosts and is
\* no stale primary claim.
C17_MatchingPrimaryReportGivesPrimary ==
  [][/\ UnknownIsRetyped
     /\ (/\ AcceptedStep
         /\ options.replicaset # Undefined
         /\ op'.report.type = "RSPrimary"
         /\ op'.report.setName = description.setName
         /\ op'.report.address \in op'.report.hosts
         /\ ~isStalePrimary(description, op'.report))
          => description'.type = "ReplicaSetWithPrimary"
     /\ SingleIsKept]_vars

\* a topology constructed with the replicaset option, without a primary until
\* the RSPrimary report of the last step
C17_Witness ==
  /\ op.name = "serverUpdateHandler"
  /\ op.accepted
  /\ op.thrown = "none"
  /\ options.replicaset # Undefined
  /\ op.report.type = "RSPrimary"
  /\ emitted[Len(emitted)].previous.type = "ReplicaSetNoPrimary"
  /\ description.type = "ReplicaSetWithPrimary"

\* the positions of the topologyDescriptionChanged events of the last step
TopologyChanges == {i \in DOMAIN emitted : emitted[i].name = "topologyDescriptionChanged"}

\* C18: the fold, the reconciliation and the emits of a serverUpdateHandler
\* call are atomic with respect to other calls of it, a call made by a listener
\* from inside an emit included: no other call replaces the description between
\* the fold and the last emit, so the topologyDescriptionChanged events form a
\* chain in which the previous description of each event is the current
\* description of the event before it.
C18_EventsFormChain ==
  \A i, j \in TopologyChanges :
    (i < j /\ \A k \in TopologyChanges : ~(i < k /\ k < j))
      => emitted[j].previous = emitted[i].current

\* C19: the duration that selectServers compares with the timeout is the time
\* elapsed between the start timestamp of the selection and the comparison, so
\* a timeout error comes only when more than the timeout has really elapsed,
\* never because of the absolute value of the clock.
C19_DurationIsElapsed ==
  (op.name = "selectServer" /\ op.candidates = {} /\ op.err # PredicateError)
    => /\ op.duration = op.elapsed
       /\ op.err = MongoTimeoutError(op.timeout) => op.elapsed > op.timeout

\* the names of the events of the last step
EmittedNames == {emitted[i].name : i \in DOMAIN emitted}

\* C20: the map of servers exists in every state of the topology, before
\* connect() too: close() and serverUpdateHandler for a member raise no error
\* whenever they are called; close() emits topologyClosed and calls its
\* callback, serverUpdateHandler installs the folded description and emits
\* both change events.
C20_CallsBeforeConnectReturn ==
  /\ op.name = "close"
       => /\ op.thrown = "none"
          /\ emitted = << Event("topologyClosed", NoAddress) >>
          /\ op.called = 1
  /\ (op.name = "serverUpdateHandler" /\ op.accepted)
       => /\ op.thrown = "none"
          /\ {"serverDescriptionChanged", "topologyDescriptionChanged"} \subseteq EmittedNames
          /\ emitted[1].visible = description

\* the Server objects the map of servers holds
Held(srvs) == {srvs.map[a] : a \in DOMAIN srvs.map}

\* C21: no monitor is orphaned, under repeated connect() too: every monitor
\* that was created and started is still held in the map of servers or has had
\* destroy called on it, and no address has more than one live monitor. Stated
\* for the monitors a connect() has just created, which are live, over the
\* connect() that follows it.
C21_NoMonitorOrphaned ==
  [][(op.name = "connect" /\ op'.name = "connect")
       => \A s \in op.created :
            /\ s \in Held(servers') \/ s \in op'.destroyed
            /\ s \notin op'.destroyed
                 => \A t \in op'.created : t.address = s.address => t = s]_vars

====
